---- MODULE Spec2Model ----
(***************************************************************************)
(* parse_emails (src/DataAnalysis.py): the free-text line classifier and   *)
(* aggregator.  Text is modelled as TLA+ strings, i.e. sequences of        *)
(* characters, and every regular expression of the source is an operator   *)
(* that scans the characters the way the regex engine does.                *)
(*                                                                         *)
(* The module text is ASCII.  Two non-ASCII characters of the source are   *)
(* written with an ASCII stand-in of the same character class:             *)
(*   "*"   stands for the multiplication sign U+00D7 of pattern_generic,   *)
(*   "\""  stands for the right double quotation mark U+201D (inch mark).  *)
(***************************************************************************)
EXTENDS Integers, Sequences, FiniteSets, TLC

(***************************************************************************)
(* Characters and str methods                                              *)
(***************************************************************************)
\* s[i-1:j] of Python: the characters at positions i..j (1-based, inclusive),
\* clipped to the string
Sub(s, i, j) ==
    LET lo == IF i < 1 THEN 1 ELSE i
        hi == IF j > Len(s) THEN Len(s) ELSE j
    IN  IF lo > hi THEN "" ELSE SubSeq(s, lo, hi)

Char(s, i) == Sub(s, i, i)

TIMES == "*"

DigitChars == {"0", "1", "2", "3", "4", "5", "6", "7", "8", "9"}
LowerAlpha == "abcdefghijklmnopqrstuvwxyz"
UpperAlpha == "ABCDEFGHIJKLMNOPQRSTUVWXYZ"
LowerChars == {Char(LowerAlpha, i) : i \in 1..26}
UpperChars == {Char(UpperAlpha, i) : i \in 1..26}
SpaceChars == {" ", "\t", "\n", "\r", "\f"}

IsDigit(c) == c \in DigitChars
IsSpace(c) == c \in SpaceChars
\* \w of the re module: letters, digits and the underscore
IsWord(c) == c \in DigitChars \/ c \in LowerChars \/ c \in UpperChars \/ c = "_"

DigitVal(c) == CHOOSE v \in 0..9 : Char("0123456789", v + 1) = c

ToLower(c) ==
    IF c \in UpperChars
    THEN Char(LowerAlpha, CHOOSE i \in 1..26 : Char(UpperAlpha, i) = c)
    ELSE c

ToUpper(c) ==
    IF c \in LowerChars
    THEN Char(UpperAlpha, CHOOSE i \in 1..26 : Char(LowerAlpha, i) = c)
    ELSE c

RECURSIVE lower(_)
lower(s) == IF s = "" THEN "" ELSE ToLower(Char(s, 1)) \o lower(Sub(s, 2, Len(s)))

RECURSIVE upper(_)
upper(s) == IF s = "" THEN "" ELSE ToUpper(Char(s, 1)) \o upper(Sub(s, 2, Len(s)))

\* str.strip(): drop leading and trailing whitespace
strip(s) ==
    LET keep == {i \in 1..Len(s) : ~IsSpace(Char(s, i))}
        lo == CHOOSE i \in keep : \A j \in keep : i <= j
        hi == CHOOSE i \in keep : \A j \in keep : i >= j
    IN  IF keep = {} THEN "" ELSE Sub(s, lo, hi)

\* str.split(sep) for a one-character separator
RECURSIVE SplitFrom(_, _, _, _)
SplitFrom(s, sep, start, i) ==
    IF i > Len(s) THEN <<Sub(s, start, Len(s))>>
    ELSE IF Char(s, i) = sep
         THEN <<Sub(s, start, i - 1)>> \o SplitFrom(s, sep, i + 1, i + 1)
         ELSE SplitFrom(s, sep, start, i + 1)

split(s, sep) == SplitFrom(s, sep, 1, 1)

\* the `in` operator on two strings
Contains(s, sub) ==
    \E i \in 1..(Len(s) - Len(sub) + 1) : Sub(s, i, i + Len(sub) - 1) = sub

\* int() of a string of decimal digits
RECURSIVE int(_)
int(s) ==
    IF s = "" THEN 0
    ELSE 10 * int(Sub(s, 1, Len(s) - 1)) + DigitVal(Char(s, Len(s)))

\* number of consecutive characters of s from position i on that are digits
RECURSIVE DigitRun(_, _)
DigitRun(s, i) ==
    IF i <= Len(s) /\ IsDigit(Char(s, i)) THEN 1 + DigitRun(s, i + 1) ELSE 0

\* ... that are whitespace (\s)
RECURSIVE SpaceRun(_, _)
SpaceRun(s, i) ==
    IF i <= Len(s) /\ IsSpace(Char(s, i)) THEN 1 + SpaceRun(s, i + 1) ELSE 0

\* ... that are in [^,;\n]
RECURSIVE ClauseRun(_, _)
ClauseRun(s, i) ==
    IF i <= Len(s) /\ Char(s, i) \notin {",", ";", "\n"}
    THEN 1 + ClauseRun(s, i + 1) ELSE 0

\* \b between positions i-1 and i of s
WordBoundary(s, i) ==
    LET before == i > 1 /\ i - 1 <= Len(s) /\ IsWord(Char(s, i - 1))
        after == i >= 1 /\ i <= Len(s) /\ IsWord(Char(s, i))
    IN  before # after

\* \bword\b matches s at position i; fold: re.IGNORECASE
WordAt(s, i, word, fold) ==
    LET j == i + Len(word) - 1
        got == Sub(s, i, j)
    IN  /\ j <= Len(s)
        /\ IF fold THEN lower(got) = lower(word) ELSE got = word
        /\ WordBoundary(s, i)
        /\ WordBoundary(s, j + 1)

\* re.search(r'\bword\b', s)
WordSearch(s, word) == \E i \in 1..Len(s) : WordAt(s, i, word, FALSE)

\* re.sub(r'\bword\b', '', s): every non-overlapping match removed
RECURSIVE WordSub(_, _, _, _)
WordSub(s, word, fold, i) ==
    IF i > Len(s) THEN ""
    ELSE IF WordAt(s, i, word, fold)
         THEN WordSub(s, word, fold, i + Len(word))
         ELSE Char(s, i) \o WordSub(s, word, fold, i + 1)

(***************************************************************************)
(* Model registry                                                          *)
(***************************************************************************)
DESKTOP_MODELS == <<"3000", "3010">>
\* mutant of LAPTOP_MODELS: a desktop model is listed as a laptop too
LAPTOP_MODELS_with_3000 == <<"3000", "5340", "5330", "5531", "5540", "5666">>

LAPTOP_MODELS == <<"5340", "5330", "5531", "5540", "5666">>
PHONE_MODELS == <<"A32", "A34", "A35", "S23">>

Range(f) == {f[i] : i \in DOMAIN f}

(***************************************************************************)
(* Helper functions of parse_emails                                        *)
(***************************************************************************)
\* re.sub(r'[^a-z0-9\s\-]+', '', item_name.lower()).strip()
RECURSIVE KeepNormal(_)
KeepNormal(s) ==
    IF s = "" THEN ""
    ELSE LET c == Char(s, 1)
         IN  (IF c \in LowerChars \/ IsDigit(c) \/ IsSpace(c) \/ c = "-"
              THEN c ELSE "")
             \o KeepNormal(Sub(s, 2, Len(s)))

\* mutant of normalize_item_name: the text is trimmed before the characters
\* are removed
normalize_item_name_trim_first(item_name) == KeepNormal(strip(lower(item_name)))

normalize_item_name(item_name) == strip(KeepNormal(lower(item_name)))

\* d[k] += n on a defaultdict(int)
AddTo(d, k, n) ==
    IF k \in DOMAIN d THEN [d EXCEPT ![k] = @ + n] ELSE d @@ (k :> n)

increment_monitors(c, count) == [c EXCEPT !.monitors = @ + count]

increment_desktop(c, model, count) ==
    [c EXCEPT !.desktops = AddTo(@, model, count)]

increment_laptop(c, model, count) ==
    [c EXCEPT !.laptops = AddTo(@, model, count)]

increment_phone(c, model, count) ==
    LET m == IF model \notin Range(PHONE_MODELS) THEN "A35" ELSE model
    IN  [c EXCEPT !.phones = AddTo(@, m, count)]

\* mutant of increment_unparsable: the new entry goes to the front of the list
increment_unparsable_front(c, line, sender, time) ==
    [c EXCEPT !.unparsable_lines =
        <<[line |-> line, sender |-> sender, received_time |-> time]>> \o @]

\* mutant of increment_unparsable: a line already in the list is not added again
increment_unparsable_dedup(c, line, sender, time) ==
    IF \E k \in DOMAIN c.unparsable_lines : c.unparsable_lines[k].line = line
    THEN c
    ELSE [c EXCEPT !.unparsable_lines =
            Append(@, [line |-> line, sender |-> sender, received_time |-> time])]

increment_unparsable(c, line, sender, time) ==
    [c EXCEPT !.unparsable_lines =
        Append(@, [line |-> line, sender |-> sender, received_time |-> time])]

\* mutant of increment_bag: the addition is lost
increment_bag_lost(c, size_label, count) == c

increment_bag(c, size_label, count) ==
    [c EXCEPT !.bags = AddTo(@, size_label, count)]

increment_charger(c, label, count) ==
    [c EXCEPT !.chargers = AddTo(@, label, count)]

\* mutant of increment_dock: docks are counted for the first dock statement
\* of a run only
increment_dock_once(c, count) ==
    IF c.docks > 0 THEN c ELSE [c EXCEPT !.docks = @ + count]

increment_dock(c, count) == [c EXCEPT !.docks = @ + count]

increment_headset(c, label, count) ==
    [c EXCEPT !.headsets = AddTo(@, label, count)]

(***************************************************************************)
(* Regular expressions of parse_emails                                     *)
(***************************************************************************)
\* re.match(r'^X(\d+)\s+(.*)', line, re.IGNORECASE): groups (num_str, item_str)
pattern_x_leading(line) ==
    LET d == DigitRun(line, 2)
        w == SpaceRun(line, 2 + d)
    IN  [ok |-> line # "" /\ lower(Char(line, 1)) = "x" /\ d >= 1 /\ w >= 1,
         num_str |-> Sub(line, 2, 1 + d),
         item_str |-> Sub(line, 2 + d + w, Len(line))]

\* one attempt of r'(\d+)\s*[x*]\s+([^,;\n]+)' (re.IGNORECASE) at position i.
\* \s+ is greedy; when no clause character follows the whitespace it gives
\* its last character back to the description group.
GenericAt(line, i) ==
    LET d == DigitRun(line, i)
        b == i + d + SpaceRun(line, i + d)
        w == SpaceRun(line, b + 1)
        c == b + 1 + w
        t == ClauseRun(line, c)
        back == t = 0 /\ w >= 2 /\ Char(line, c - 1) # "\n"
    IN  [ok |-> /\ d >= 1
                /\ b <= Len(line)
                /\ lower(Char(line, b)) \in {"x", TIMES}
                /\ w >= 1
                /\ (t >= 1 \/ back),
         num_str |-> Sub(line, i, i + d - 1),
         raw_item_str |-> IF t >= 1 THEN Sub(line, c, c + t - 1)
                                    ELSE Char(line, c - 1),
         end |-> c + t]

\* re.findall(pattern_generic, line, re.IGNORECASE) scanning from position i
RECURSIVE GenericFrom(_, _)
GenericFrom(line, i) ==
    IF i > Len(line) THEN <<>>
    ELSE LET m == GenericAt(line, i)
         IN  IF m.ok
             THEN <<[num_str |-> m.num_str, raw_item_str |-> m.raw_item_str]>>
                  \o GenericFrom(line, m.end)
             ELSE GenericFrom(line, i + 1)

pattern_generic(line) == GenericFrom(line, 1)

\* re.match(r'^(Laptop|PC)\s+(\d{4})$', line, re.IGNORECASE)
pattern_category_model(line) ==
    LET k == IF lower(Sub(line, 1, 6)) = "laptop" THEN 6
             ELSE IF lower(Sub(line, 1, 2)) = "pc" THEN 2 ELSE 0
        w == SpaceRun(line, k + 1)
        m == k + w + 1
    IN  [ok |-> /\ k > 0
                /\ w >= 1
                /\ DigitRun(line, m) >= 4
                /\ Len(line) = m + 3,
         category |-> Sub(line, 1, k),
         model |-> Sub(line, m, m + 3)]

\* re.match(r'(\d{4})', s): the first four characters when they are digits
four_digit_match(s) == IF DigitRun(s, 1) >= 4 THEN Sub(s, 1, 4) ELSE ""

\* re.search(r'\b(a3[245]|s23)\b', s, re.IGNORECASE): group 1 of the
\* leftmost match, "" when there is none
phone_model_match(s) ==
    LET alts == {"a32", "a34", "a35", "s23"}
        hits == {i \in 1..Len(s) : \E a \in alts : WordAt(s, i, a, TRUE)}
        first == CHOOSE i \in hits : \A j \in hits : i <= j
    IN  IF hits = {} THEN "" ELSE Sub(s, first, first + 2)

\* the lookahead (?!\s*(case|cases)) fails at position j
CaseAhead(s, j) ==
    LET k == j + SpaceRun(s, j)
    IN  lower(Sub(s, k, k + 3)) = "case"

\* phone_pattern matches at position i
PhoneAt(s, i) ==
    /\ \E k \in DOMAIN PHONE_MODELS : WordAt(s, i, PHONE_MODELS[k], TRUE)
    /\ ~CaseAhead(s, i + 3)

\* phone_pattern.findall(s): the pattern has two groups, so each match is the
\* tuple (model, case); the second group sits in the negative lookahead and
\* is always ''
RECURSIVE PhoneFrom(_, _)
PhoneFrom(s, i) ==
    IF i > Len(s) THEN <<>>
    ELSE IF PhoneAt(s, i)
         THEN <<(<<Sub(s, i, i + 2), "">>)>> \o PhoneFrom(s, i + 3)
         ELSE PhoneFrom(s, i + 1)

phone_pattern_findall(s) == PhoneFrom(s, 1)

(***************************************************************************)
(* The four matcher forms.  Each form yields the helper call(s) the code   *)
(* makes for a line: a call is the helper's name with its arguments, and   *)
(* Do applies it to the counts with the report's sender and received_time. *)
(***************************************************************************)
InList(x, list) == x \in Range(list)

Call(fn, label, count) == [fn |-> fn, label |-> label, count |-> count]

\* increment_unparsable(line, sender, received_time)
Unparsable(line) == Call("increment_unparsable", line, 0)

Do(c, call, sender, received_time) ==
    CASE call.fn = "increment_monitors" -> increment_monitors(c, call.count)
      [] call.fn = "increment_desktop" -> increment_desktop(c, call.label, call.count)
      [] call.fn = "increment_laptop" -> increment_laptop(c, call.label, call.count)
      [] call.fn = "increment_phone" -> increment_phone(c, call.label, call.count)
      [] call.fn = "increment_bag" -> increment_bag(c, call.label, call.count)
      [] call.fn = "increment_charger" -> increment_charger(c, call.label, call.count)
      [] call.fn = "increment_dock" -> increment_dock(c, call.count)
      [] call.fn = "increment_headset" -> increment_headset(c, call.label, call.count)
      [] call.fn = "increment_unparsable" ->
            increment_unparsable(c, call.label, sender, received_time)

RECURSIVE DoAll(_, _, _, _)
DoAll(c, calls, sender, received_time) ==
    IF calls = <<>> THEN c
    ELSE DoAll(Do(c, Head(calls), sender, received_time), Tail(calls),
               sender, received_time)

\* mutant of x_leading_form: the model lookup comes before the screen and
\* monitor keywords
x_leading_form_lookup_first(line_clean, m) ==
    LET count_num == int(m.num_str)
        item_str_normalized == normalize_item_name(m.item_str)
        model == four_digit_match(item_str_normalized)
    IN  IF InList(model, DESKTOP_MODELS)
        THEN Call("increment_desktop", model, count_num)
        ELSE IF InList(model, LAPTOP_MODELS)
        THEN Call("increment_laptop", model, count_num)
        ELSE IF Contains(item_str_normalized, "screen")
                \/ Contains(item_str_normalized, "monitor")
        THEN Call("increment_monitors", "", count_num)
        ELSE Unparsable(line_clean)

\* form (1), lines 124-152: the whole line is one quantity statement
x_leading_form(line_clean, m) ==
    LET count_num == int(m.num_str)
        item_str_normalized == normalize_item_name(m.item_str)
        model == four_digit_match(item_str_normalized)
    IN  IF Contains(item_str_normalized, "screen")
           \/ Contains(item_str_normalized, "monitor")
        THEN Call("increment_monitors", "", count_num)
        ELSE IF model # ""
             THEN IF InList(model, DESKTOP_MODELS)
                  THEN Call("increment_desktop", model, count_num)
                  ELSE IF InList(model, LAPTOP_MODELS)
                       THEN Call("increment_laptop", model, count_num)
                       ELSE Unparsable(line_clean)
             ELSE Unparsable(line_clean)

\* form (2), lines 163-176: the description starts with four digits
four_digit_branch(line_clean, model, count_num) ==
    IF InList(model, DESKTOP_MODELS)
    THEN Call("increment_desktop", model, count_num)
    ELSE IF InList(model, LAPTOP_MODELS)
         THEN Call("increment_laptop", model, count_num)
         ELSE Unparsable(line_clean)

\* mutant of phone_keyword_branch: no default model, a phone without a
\* recognized model is unparsable
phone_keyword_branch_nodefault(line_clean, s, count_num) ==
    IF ~Contains(s, "case") /\ phone_model_match(s) # ""
    THEN Call("increment_phone", upper(phone_model_match(s)), count_num)
    ELSE Unparsable(line_clean)

\* form (2), lines 179-194: the description contains 'phone'
phone_keyword_branch(line_clean, s, count_num) ==
    LET phone == phone_model_match(s)
        model == IF phone # "" THEN upper(phone) ELSE "A35"
    IN  IF ~Contains(s, "case")
        THEN Call("increment_phone", model, count_num)
        ELSE Unparsable(line_clean)

\* form (2), lines 197-208: a phone model without the word 'phone'
phone_model_branch(line_clean, s, count_num) ==
    IF ~Contains(s, "case")
    THEN Call("increment_phone", upper(phone_model_match(s)), count_num)
    ELSE Unparsable(line_clean)

\* mutant of bag_branch: a bag of no stated size is counted under its
\* description
bag_branch_any_label(line_clean, s, count_num) ==
    IF Contains(s, "small")
    THEN Call("increment_bag", "small", count_num)
    ELSE IF Contains(s, "large")
         THEN Call("increment_bag", "large", count_num)
         ELSE Call("increment_bag", s, count_num)

\* form (2), lines 217-228
bag_branch(line_clean, s, count_num) ==
    IF Contains(s, "small")
    THEN Call("increment_bag", "small", count_num)
    ELSE IF Contains(s, "large")
         THEN Call("increment_bag", "large", count_num)
         ELSE Unparsable(line_clean)

\* mutant of generic_item: the monitor and screen keywords are tested before
\* the phone rules
generic_item_monitor_first(line_clean, item) ==
    LET count_num == int(item.num_str)
        s == normalize_item_name(item.raw_item_str)
    IN  IF four_digit_match(s) # ""
        THEN four_digit_branch(line_clean, four_digit_match(s), count_num)
        ELSE IF Contains(s, "monitor") \/ Contains(s, "screen")
        THEN Call("increment_monitors", "", count_num)
        ELSE IF Contains(s, "phone")
        THEN phone_keyword_branch(line_clean, s, count_num)
        ELSE IF phone_model_match(s) # ""
        THEN phone_model_branch(line_clean, s, count_num)
        ELSE IF Contains(s, "bag")
        THEN bag_branch(line_clean, s, count_num)
        ELSE IF Contains(s, "charger")
        THEN Call("increment_charger", s, count_num)
        ELSE IF Contains(s, "dock")
        THEN Call("increment_dock", "", count_num)
        ELSE IF Contains(s, "headset")
        THEN Call("increment_headset", s, count_num)
        ELSE Unparsable(line_clean)

\* mutant of generic_item: the catch-all records the description of the
\* occurrence in place of the line
generic_item_own_text(line_clean, item) ==
    LET count_num == int(item.num_str)
        s == normalize_item_name(item.raw_item_str)
    IN  IF four_digit_match(s) # ""
        THEN four_digit_branch(line_clean, four_digit_match(s), count_num)
        ELSE IF Contains(s, "phone")
        THEN phone_keyword_branch(line_clean, s, count_num)
        ELSE IF phone_model_match(s) # ""
        THEN phone_model_branch(line_clean, s, count_num)
        ELSE IF Contains(s, "monitor") \/ Contains(s, "screen")
        THEN Call("increment_monitors", "", count_num)
        ELSE IF Contains(s, "bag")
        THEN bag_branch(line_clean, s, count_num)
        ELSE IF Contains(s, "charger")
        THEN Call("increment_charger", s, count_num)
        ELSE IF Contains(s, "dock")
        THEN Call("increment_dock", "", count_num)
        ELSE IF Contains(s, "headset")
        THEN Call("increment_headset", s, count_num)
        ELSE Unparsable(strip(item.raw_item_str))

\* form (2), lines 157-250: one occurrence of found_items through the cascade
generic_item(line_clean, item) ==
    LET count_num == int(item.num_str)
        s == normalize_item_name(item.raw_item_str)
    IN  IF four_digit_match(s) # ""
        THEN four_digit_branch(line_clean, four_digit_match(s), count_num)
        ELSE IF Contains(s, "phone")
        THEN phone_keyword_branch(line_clean, s, count_num)
        ELSE IF phone_model_match(s) # ""
        THEN phone_model_branch(line_clean, s, count_num)
        ELSE IF Contains(s, "monitor") \/ Contains(s, "screen")
        THEN Call("increment_monitors", "", count_num)
        ELSE IF Contains(s, "bag")
        THEN bag_branch(line_clean, s, count_num)
        ELSE IF Contains(s, "charger")
        THEN Call("increment_charger", s, count_num)
        ELSE IF Contains(s, "dock")
        THEN Call("increment_dock", "", count_num)
        ELSE IF Contains(s, "headset")
        THEN Call("increment_headset", s, count_num)
        ELSE Unparsable(line_clean)

\* mutant of category_model_form: the category keyword is not compared, a
\* model of either registry is counted in its own category
category_model_form_any(line_clean, m) ==
    LET model == strip(m.model)
    IN  IF InList(model, LAPTOP_MODELS)
        THEN Call("increment_laptop", model, 1)
        ELSE IF InList(model, DESKTOP_MODELS)
             THEN Call("increment_desktop", model, 1)
             ELSE Unparsable(line_clean)

\* form (3), lines 255-270
category_model_form(line_clean, m) ==
    LET category == lower(m.category)
        model == strip(m.model)
    IN  IF category = "laptop" /\ InList(model, LAPTOP_MODELS)
        THEN Call("increment_laptop", model, 1)
        ELSE IF category = "pc" /\ InList(model, DESKTOP_MODELS)
             THEN Call("increment_desktop", model, 1)
             ELSE Unparsable(line_clean)

\* form (4), lines 284-296: one registry loop; st is the calls made so far
\* and the line_clean left after the removals
RECURSIVE ExtractModels(_, _, _, _)
ExtractModels(st, models, i, fn) ==
    IF i > Len(models) THEN st
    ELSE LET model == models[i]
             next == IF WordSearch(st.line_clean, model)
                     THEN [calls |-> Append(st.calls, Call(fn, model, 1)),
                           line_clean |-> WordSub(st.line_clean, model, FALSE, 1)]
                     ELSE st
         IN  ExtractModels(next, models, i + 1, fn)

\* form (4), lines 275-304.  phone_matches holds tuples, and the loop body
\* calls model.upper() on its first element: a tuple has no upper(), so the
\* loop raises AttributeError before any counter is touched.
fallback_form(line_clean) ==
    LET phone_matches == phone_pattern_findall(line_clean)
        d == ExtractModels([calls |-> <<>>, line_clean |-> line_clean],
                           DESKTOP_MODELS, 1, "increment_desktop")
        l == ExtractModels(d, LAPTOP_MODELS, 1, "increment_laptop")
        parsed == l.calls # <<>>
        residual == IF parsed /\ strip(l.line_clean) # ""
                    THEN <<Unparsable(strip(l.line_clean))>> ELSE <<>>
        whole == IF ~parsed /\ l.line_clean # ""
                 THEN <<Unparsable(l.line_clean)>> ELSE <<>>
    IN  IF phone_matches # <<>>
        THEN [raised |-> TRUE, calls |-> <<>>]
        ELSE [raised |-> FALSE, calls |-> l.calls \o residual \o whole]

(***************************************************************************)
(* Inputs: email_data, the argument of parse_emails                        *)
(***************************************************************************)
\* a body is a str or None
PyStr(s) == [type |-> "str", val |-> s]
PyNone == [type |-> "NoneType"]

\* dict.get(key, default)
Get(d, key, default) == IF key \in DOMAIN d THEN d[key] ELSE default

Email(body, sender, received_time) ==
    [body |-> PyStr(body), sender |-> sender, received_time |-> received_time]

\* the longest email_data of a run over the catalogue
MaxEmails == 2

\* how many stocked reports may come before the report of a generated line
MaxEarlier == 1

\* the reports a run is made of
Catalogue ==
    { Email("4 x monitors", "alice", "09:00"),
      Email("X6 24\" screens", "alice", "09:00"),
      Email("19 x Samsung A35s and 19 x Samsung A35 cases", "bob", "10:30"),
      Email("1 x dock and 1 x 5220 polywire headset", "alice", "09:00"),
      Email("1 x dock and 1 x 5220 polywire headset", "bob", "10:30"),
      Email("Laptop 5666", "bob", "10:30"),
      Email("2 x widget", "alice", "09:00"),
      Email("2 x widget", "bob", "10:30"),
      Email("2 x phone\n\n   \nPC 3000\n0 x docks", "alice", "09:00"),
      Email("2 x docks; Laptop 5666, 3 x bag, 1 x small bag", "bob", "10:30"),
      Email("got 3000 and 5340\nA35 case", "alice", "09:00"),
      Email("Samsung A35 returned", "bob", "10:30"),
      Email("X2 A35 case screens\nX3 3010 pc\nX1 phones", "bob", "10:30"),
      Email("", "alice", "09:00"),
      [sender |-> "alice", received_time |-> "09:00"],
      [body |-> PyStr("PC 5666")],
      [body |-> PyNone, sender |-> "bob", received_time |-> "10:30"] }

\* single lines, composed of a lead, a description and a tail
Leads ==
    {"", "X2 ", "x0 ", "2 x ", "4 x ", "19 X ", "3 * ", "Laptop ", "pc  ", "got "}
Descriptions ==
    {"", "A35", "a34s", "3000", "5666", "53401", "1234", "phone",
     "Samsung phones", "widget", "monitors", "docks", "small laptop bag",
     "bag", "100w usb-c charger", "5220 polywire headset", "polywire Headset"}
Tails ==
    {"", " case", " cases", " screens", ", 1 x dock", " and 1 x widget",
     "; S23 case", " 3010", ", 3 x gadget"}
GenLines == {lead \o d \o tail : lead \in Leads, d \in Descriptions, tail \in Tails}

Stocked ==
    Email("1 x 3000, 1 x 5666, 1 x A35, 1 x small bag, 1 x dock, 1 x widget",
          "dave", "08:15")

RECURSIVE SeqsUpTo(_, _)
SeqsUpTo(S, n) ==
    IF n = 0 THEN {<<>>}
    ELSE LET shorter == SeqsUpTo(S, n - 1)
         IN  shorter \cup {Append(q, e) : q \in shorter, e \in S}

(***************************************************************************)
(* parse_emails as a function of its argument: the result of a whole run   *)
(***************************************************************************)
\* lines 116-304: the helper calls made for one line of a body, and whether
\* the line raises
line_calls(line) ==
    LET lc == strip(line)
        items == pattern_generic(lc)
    IN  IF lc = "" THEN [raised |-> FALSE, calls |-> <<>>]
        ELSE IF pattern_x_leading(lc).ok
        THEN [raised |-> FALSE,
              calls |-> <<x_leading_form(lc, pattern_x_leading(lc))>>]
        ELSE IF items # <<>>
        THEN [raised |-> FALSE,
              calls |-> [k \in DOMAIN items |-> generic_item(lc, items[k])]]
        ELSE IF pattern_category_model(lc).ok
        THEN [raised |-> FALSE,
              calls |-> <<category_model_form(lc, pattern_category_model(lc))>>]
        ELSE fallback_form(lc)

\* lines 115-304: the line loop of one report on the counts c
RECURSIVE parse_lines(_, _, _, _)
parse_lines(c, body_lines, from, time) ==
    IF body_lines = <<>> THEN [raised |-> FALSE, counts |-> c]
    ELSE LET r == line_calls(Head(body_lines))
         IN  IF r.raised THEN [raised |-> TRUE, counts |-> c]
             ELSE parse_lines(DoAll(c, r.calls, from, time), Tail(body_lines),
                              from, time)

\* lines 109-114: the report loop from report i on
RECURSIVE parse_from(_, _, _)
parse_from(c, data, i) ==
    IF i > Len(data) THEN [raised |-> FALSE, counts |-> c]
    ELSE LET email == data[i]
             body == Get(email, "body", PyStr(""))
             r == parse_lines(c, split(body.val, "\n"),
                              Get(email, "sender", "Unknown Sender"),
                              Get(email, "received_time", "Unknown Time"))
         IN  IF body.type # "str" THEN [raised |-> TRUE, counts |-> c]
             ELSE IF r.raised THEN r
             ELSE parse_from(r.counts, data, i + 1)

\* lines 27-38: the counts of a new run
ZeroCounts ==
    [monitors |-> 0, desktops |-> <<>>, laptops |-> <<>>, phones |-> <<>>,
     bags |-> <<>>, chargers |-> <<>>, docks |-> 0, headsets |-> <<>>,
     unparsable_lines |-> <<>>]

\* lines 6-315: a run returns its counts or raises
parse_emails(data) == parse_from(ZeroCounts, data, 1)

(***************************************************************************)
(* State                                                                   *)
(***************************************************************************)
VARIABLES
    email_data,     \* the argument: a list of dicts
    counts,         \* the counts dict, unparsable_lines included
    pc,             \* "emails": at the head of the report loop; "lines": at
                    \* the head of the line loop; "items": inside the loop
                    \* over found_items; "returned"; "raised"
    n_emails,       \* how many reports the outer loop has taken
    sender, received_time,
    lines,          \* the lines of body.split('\n') not yet taken
    line_clean,     \* the line the line loop took last
    found_items,    \* the occurrences of the generic form not yet classified
    form,           \* which matcher form took line_clean
    before          \* counts as they were when line_clean was taken

vars == <<email_data, counts, pc, n_emails, sender, received_time, lines,
          line_clean, found_items, form, before>>

Start(data) ==
    /\ email_data = data
    /\ counts = ZeroCounts
    /\ pc = "emails"
    /\ n_emails = 0
    /\ sender = ""
    /\ received_time = ""
    /\ lines = <<>>
    /\ line_clean = ""
    /\ found_items = <<>>
    /\ form = "none"
    /\ before = ZeroCounts

Init == \E data \in SeqsUpTo(Catalogue, MaxEmails) : Start(data)

\* one report of one line, alone or after reports that have filled the counters
LineInit ==
    \E line \in GenLines, earlier \in SeqsUpTo({Stocked}, MaxEarlier) :
        Start(earlier \o <<Email(line, "carol", "11:45")>>)

(***************************************************************************)
(* Steps of parse_emails                                                   *)
(***************************************************************************)
\* lines 109-114: the next report; None.split raises AttributeError
NextEmail ==
    /\ pc = "emails"
    /\ n_emails < Len(email_data)
    /\ LET email == email_data[n_emails + 1]
           body == Get(email, "body", PyStr(""))
       IN  /\ sender' = Get(email, "sender", "Unknown Sender")
           /\ received_time' = Get(email, "received_time", "Unknown Time")
           /\ IF body.type = "str"
              THEN pc' = "lines" /\ lines' = split(body.val, "\n")
              ELSE pc' = "raised" /\ lines' = <<>>
    /\ n_emails' = n_emails + 1
    /\ form' = "none"
    /\ line_clean' = ""
    /\ before' = counts
    /\ UNCHANGED <<email_data, counts, found_items>>

\* the line loop takes line and is done with it in the same step
Take(lc, f) ==
    /\ line_clean' = lc
    /\ form' = f
    /\ before' = counts
    /\ lines' = Tail(lines)
    /\ UNCHANGED <<email_data, n_emails, sender, received_time>>

\* back at the head of the line loop, or of the report loop after the last line
Continue(rest) == pc' = IF rest = <<>> THEN "emails" ELSE "lines"

\* lines 116-118
SkipBlank ==
    /\ pc = "lines"
    /\ strip(Head(lines)) = ""
    /\ Take("", "blank")
    /\ Continue(Tail(lines))
    /\ UNCHANGED <<counts, found_items>>

\* lines 123-152
LeadingCount ==
    /\ pc = "lines"
    /\ LET lc == strip(Head(lines))
           match_x == pattern_x_leading(lc)
       IN  /\ lc # ""
           /\ match_x.ok
           /\ counts' = Do(counts, x_leading_form(lc, match_x), sender, received_time)
           /\ Take(lc, "x_leading")
    /\ Continue(Tail(lines))
    /\ UNCHANGED found_items

\* lines 155-156
GenericFind ==
    /\ pc = "lines"
    /\ LET lc == strip(Head(lines))
           items == pattern_generic(lc)
       IN  /\ lc # ""
           /\ ~pattern_x_leading(lc).ok
           /\ items # <<>>
           /\ found_items' = items
           /\ Take(lc, "generic")
    /\ pc' = "items"
    /\ UNCHANGED counts

\* lines 157-251: one turn of the loop over found_items
GenericItem ==
    /\ pc = "items"
    /\ counts' = Do(counts, generic_item(line_clean, Head(found_items)),
                    sender, received_time)
    /\ found_items' = Tail(found_items)
    /\ IF Tail(found_items) = <<>> THEN Continue(lines) ELSE pc' = "items"
    /\ UNCHANGED <<email_data, n_emails, sender, received_time, lines,
                   line_clean, form, before>>

\* lines 254-270
CategoryModel ==
    /\ pc = "lines"
    /\ LET lc == strip(Head(lines))
           m == pattern_category_model(lc)
       IN  /\ lc # ""
           /\ ~pattern_x_leading(lc).ok
           /\ pattern_generic(lc) = <<>>
           /\ m.ok
           /\ counts' = Do(counts, category_model_form(lc, m), sender, received_time)
           /\ Take(lc, "category_model")
    /\ Continue(Tail(lines))
    /\ UNCHANGED found_items

\* lines 272-304
Fallback ==
    /\ pc = "lines"
    /\ LET lc == strip(Head(lines))
           r == fallback_form(lc)
       IN  /\ lc # ""
           /\ ~pattern_x_leading(lc).ok
           /\ pattern_generic(lc) = <<>>
           /\ ~pattern_category_model(lc).ok
           /\ counts' = DoAll(counts, r.calls, sender, received_time)
           /\ Take(lc, "fallback")
           /\ IF r.raised THEN pc' = "raised" ELSE Continue(Tail(lines))
    /\ UNCHANGED found_items

\* lines 306-315: the caller is given counts
Return ==
    /\ pc = "emails"
    /\ n_emails = Len(email_data)
    /\ pc' = "returned"
    /\ UNCHANGED <<email_data, counts, n_emails, sender, received_time, lines,
                   line_clean, found_items, form, before>>

Next ==
    \/ NextEmail
    \/ SkipBlank
    \/ LeadingCount
    \/ GenericFind
    \/ GenericItem
    \/ CategoryModel
    \/ Fallback
    \/ Return

Spec == Init /\ [][Next]_vars

LineSpec == LineInit /\ [][Next]_vars

(***************************************************************************)
(* Vocabulary of the properties                                            *)
(***************************************************************************)
Unresolved == counts.unparsable_lines
UnresolvedBefore == before.unparsable_lines

\* the counters of c, the Unresolved list left out
Counters(c) == [c EXCEPT !.unparsable_lines = <<>>]

\* the line loop has taken line_clean and is done with it
LineDone == form # "none" /\ pc # "items"

\* a counter: a scalar, or one key of a keyed tally
Slots(c) ==
    {<<"monitors", "">>, <<"docks", "">>}
    \cup UNION {{<<cat, k>> : k \in DOMAIN c[cat]} :
                    cat \in {"desktops", "laptops", "phones", "bags",
                             "chargers", "headsets"}}

\* c with n added to the counter slot
Plus(c, slot, n) ==
    IF slot[1] \in {"monitors", "docks"}
    THEN [c EXCEPT ![slot[1]] = @ + n]
    ELSE [c EXCEPT ![slot[1]] = AddTo(@, slot[2], n)]

\* from c to d exactly one counter grew by n and nothing else changed
CountedBy(c, d, n) == \E slot \in Slots(d) : d = Plus(c, slot, n)

\* from c to d exactly one Unresolved entry was appended and nothing else changed
AppendedBy(c, d) ==
    /\ Counters(d) = Counters(c)
    /\ Len(d.unparsable_lines) = Len(c.unparsable_lines) + 1
    /\ SubSeq(d.unparsable_lines, 1, Len(c.unparsable_lines)) = c.unparsable_lines

Entry(text) == [line |-> text, sender |-> sender, received_time |-> received_time]

BodyOf(email) == Get(email, "body", PyStr(""))

\* s holds a phone model of the registry as a whole word, at position i
PhoneModelAt(s, i) == \E k \in DOMAIN PHONE_MODELS : WordAt(s, i, PHONE_MODELS[k], TRUE)

\* the counts a line states: the number after X, or the numbers of its
\* count x description statements
StatedCounts(lc) ==
    IF pattern_x_leading(lc).ok THEN {int(pattern_x_leading(lc).num_str)}
    ELSE {int(pattern_generic(lc)[k].num_str) : k \in DOMAIN pattern_generic(lc)}

(***************************************************************************)
(* C1..C10                                                                 *)
(***************************************************************************)
\* C1: parse_emails never raises on unrecognized content: when every body is
\* text, whatever the lines hold, the run does not end in an exception.
C1_NeverRaisesOnText ==
    (\A k \in DOMAIN email_data : BodyOf(email_data[k]).type = "str")
        => pc # "raised"

\* C2: conservation in the generic form: each extracted occurrence either
\* adds its count to exactly one counter or appends exactly one Unresolved
\* entry, never both and never neither.
C2_Conservation ==
    [][pc = "items" =>
          LET n == int(Head(found_items).num_str)
          IN  CountedBy(counts, counts', n) # AppendedBy(counts, counts')]_vars

\* a generic line with one counted and one unresolved occurrence
C2_Witness ==
    /\ form = "generic"
    /\ pc # "items"
    /\ Len(pattern_generic(line_clean)) = 2
    /\ Len(Unresolved) = Len(UnresolvedBefore) + 1
    /\ Counters(counts) # Counters(before)

\* C3: a line produces an outcome iff it is non-empty after trimming: a
\* non-empty line adds a parsed count to a counter or appends an Unresolved
\* entry, a blank line changes nothing.
C3_OutcomeIffNonEmpty ==
    LineDone =>
        IF form = "blank" THEN counts = before
        ELSE \/ Len(Unresolved) > Len(UnresolvedBefore)
             \/ Counters(counts) # Counters(before)
             \/ 0 \in StatedCounts(line_clean)

\* the text the case exclusion is about: a recognized phone model
\* immediately followed by case or cases
PhoneCaseIn(s) == \E i \in 1..Len(s) : PhoneModelAt(s, i) /\ CaseAhead(s, i + 3)

\* line_clean is a single fragment: a line of forms 1, 3 or 4, or a generic
\* line that is one occurrence from its first character on
OneFragment ==
    \/ form \in {"x_leading", "category_model", "fallback"}
    \/ /\ form = "generic"
       /\ Len(pattern_generic(line_clean)) = 1
       /\ GenericAt(line_clean, 1).ok
       /\ GenericAt(line_clean, 1).end > Len(line_clean)

\* C4: case exclusion, in every matcher form: a fragment holding a
\* recognized phone model immediately followed by case/cases does not
\* increment Phones and appears in the Unresolved list.
C4_CaseExclusion ==
    (LineDone /\ OneFragment /\ PhoneCaseIn(line_clean)) =>
        /\ counts.phones = before.phones
        /\ Len(Unresolved) > Len(UnresolvedBefore)

A35Line == "19 x Samsung A35s and 19 x Samsung A35 cases"

\* C5: the two statements of "19 x Samsung A35s and 19 x Samsung A35 cases"
\* are classified independently: Phones["A35"] grows by 19 and exactly one
\* Unresolved entry is appended.
C5_StatementsJoinedByAnd ==
    (LineDone /\ line_clean = A35Line) =>
        /\ Get(counts.phones, "A35", 0) = Get(before.phones, "A35", 0) + 19
        /\ Len(Unresolved) = Len(UnresolvedBefore) + 1

DockLine == "1 x dock and 1 x 5220 polywire headset"

\* C6: after two reports that each hold the line "1 x dock and 1 x 5220
\* polywire headset", Docks is 2 and Headsets["5220 polywire headset"] is 2.
C6_AccumulateAcrossReports ==
    (/\ pc = "returned"
     /\ Len(email_data) = 2
     /\ \A k \in 1..2 : BodyOf(email_data[k]) = PyStr(DockLine)) =>
        /\ counts.docks = 2
        /\ Get(counts.headsets, "5220 polywire headset", 0) = 2

\* a phone mention with no recognized model token (and no case)
PhoneMention(s) ==
    /\ Contains(lower(s), "phone")
    /\ ~Contains(lower(s), "case")
    /\ \A i \in 1..Len(s) : ~PhoneModelAt(s, i)

\* the multiplier a single-statement line states, 1 when it states none
Multiplier(lc) == IF StatedCounts(lc) = {} THEN 1 ELSE CHOOSE n \in StatedCounts(lc) : TRUE

\* C7 as written: a phone mention with no recognized model token is counted
\* under A35, with the stated multiplier, or with count 1 when none is given.
C7_PhoneDefault ==
    (LineDone /\ form # "blank" /\ PhoneMention(line_clean)
     /\ Cardinality(StatedCounts(line_clean)) <= 1) =>
        Get(counts.phones, "A35", 0)
            = Get(before.phones, "A35", 0) + Multiplier(line_clean)

\* C7, amended: the default applies in the generic form only.  There an
\* occurrence whose normalized description contains "phone", does not start
\* with four digits and has neither a recognized model token nor "case" adds
\* its multiplier to Phones["A35"].  A phone mention in a line of the
\* leading-count form or of the bare-mention fallback leaves Phones as it
\* was, and in the fallback it ends in one Unresolved entry.
C7_GenericPhoneDefault ==
    [][/\ pc = "items" =>
            LET item == Head(found_items)
                s == normalize_item_name(item.raw_item_str)
            IN  (PhoneMention(s) /\ DigitRun(s, 1) < 4) =>
                    counts' = Plus(counts, <<"phones", "A35">>, int(item.num_str))
       /\ (pc = "lines" /\ pc' # "items" /\ PhoneMention(line_clean')) =>
            /\ counts'.phones = counts.phones
            /\ form' = "fallback" =>
                    Len(counts'.unparsable_lines) = Len(counts.unparsable_lines) + 1
      ]_vars

\* a generic line that mentions a phone without a model has been counted
C7_Witness ==
    /\ form = "generic"
    /\ pc # "items"
    /\ PhoneMention(line_clean)
    /\ Multiplier(line_clean) > 0
    /\ Get(counts.phones, "A35", 0)
           = Get(before.phones, "A35", 0) + Multiplier(line_clean)

\* C8: a report whose body is null or absent does not stop the run and is
\* recorded as exactly one Unresolved entry with its sender and received_time.
C8_NullBodyContained ==
    (/\ form = "none"
     /\ n_emails >= 1
     /\ ("body" \notin DOMAIN email_data[n_emails]
            \/ email_data[n_emails].body = PyNone)) =>
        /\ pc # "raised"
        /\ Len(Unresolved) = Len(UnresolvedBefore) + 1
        /\ Unresolved[Len(Unresolved)].sender = sender
        /\ Unresolved[Len(Unresolved)].received_time = received_time

\* c with one Unresolved entry for text appended, no counter changed
WithEntry(c, text) == [c EXCEPT !.unparsable_lines = Append(@, Entry(text))]

\* the shape X<n> <text>: an X, at least one digit, whitespace
LeadingCountShape(lc) ==
    \E d \in 1..Len(lc) :
        /\ lower(Char(lc, 1)) = "x"
        /\ \A j \in 2..(d + 1) : IsDigit(Char(lc, j))
        /\ IsSpace(Char(lc, d + 2))

CategoryShape(lc) ==
    \E k \in {2, 6} :
        /\ lower(Sub(lc, 1, k)) \in {"pc", "laptop"}
        /\ Len(lc) >= k + 5
        /\ \A j \in (k + 1)..(Len(lc) - 4) : IsSpace(Char(lc, j))
        /\ \A j \in (Len(lc) - 3)..Len(lc) : IsDigit(Char(lc, j))

\* C10: a line that is only Laptop or PC followed by one 4-digit token adds 1
\* to that category's counter for the model when the model is in that
\* category's registry set; otherwise it appends one Unresolved entry and
\* changes no counter.
C10_CategoryModel ==
    (LineDone /\ CategoryShape(line_clean)) =>
        LET model == Sub(line_clean, Len(line_clean) - 3, Len(line_clean))
            laptop == lower(Sub(line_clean, 1, 6)) = "laptop"
        IN  counts =
                IF laptop /\ model \in Range(LAPTOP_MODELS)
                THEN Plus(before, <<"laptops", model>>, 1)
                ELSE IF ~laptop /\ model \in Range(DESKTOP_MODELS)
                THEN Plus(before, <<"desktops", model>>, 1)
                ELSE WithEntry(before, line_clean)

\* PC followed by a laptop model ended as one Unresolved entry
C10_Witness ==
    /\ form = "category_model"
    /\ lower(Sub(line_clean, 1, 2)) = "pc"
    /\ Sub(line_clean, Len(line_clean) - 3, Len(line_clean)) \in Range(LAPTOP_MODELS)
    /\ counts = WithEntry(before, line_clean)

(***************************************************************************)
(* C11..C20                                                                *)
(***************************************************************************)
\* the phone models the fallback is to count in lc: whole-word tokens of the
\* registry that are not followed by case or cases
FallbackPhones(lc) ==
    {upper(Sub(lc, i, i + 2)) : i \in {j \in 1..Len(lc) : PhoneAt(lc, j)}}

\* the models of a registry list present in lc as whole-word tokens
ModelsIn(lc, registry) == {m \in Range(registry) : WordSearch(lc, m)}

\* C11: bare-mention fallback: for a line matched by none of forms 1-3, each
\* distinct registry model present as a whole-word token (a phone model
\* followed by case/cases excepted) adds exactly 1 to its category; at most
\* one Unresolved entry is appended, and when nothing matched it is the
\* whole line.
C11_BareMentionFallback ==
    (LineDone /\ form = "fallback") =>
        LET phones == FallbackPhones(line_clean)
            desktops == ModelsIn(line_clean, DESKTOP_MODELS)
            laptops == ModelsIn(line_clean, LAPTOP_MODELS)
        IN  /\ \A m \in phones :
                    Get(counts.phones, m, 0) = Get(before.phones, m, 0) + 1
            /\ \A m \in desktops :
                    Get(counts.desktops, m, 0) = Get(before.desktops, m, 0) + 1
            /\ \A m \in laptops :
                    Get(counts.laptops, m, 0) = Get(before.laptops, m, 0) + 1
            /\ Len(Unresolved) <= Len(UnresolvedBefore) + 1
            /\ (phones \cup desktops \cup laptops = {}) =>
                    counts = WithEntry(before, line_clean)

\* every counter of c is a natural number
NonNegative(c) ==
    \A slot \in Slots(c) :
        IF slot[1] \in {"monitors", "docks"} THEN c[slot[1]] >= 0
        ELSE c[slot[1]][slot[2]] >= 0

\* from c to d no counter went down and no key was lost
NotDecreased(c, d) ==
    /\ d.monitors >= c.monitors
    /\ d.docks >= c.docks
    /\ \A cat \in {"desktops", "laptops", "phones", "bags", "chargers", "headsets"} :
            \A k \in DOMAIN c[cat] : k \in DOMAIN d[cat] /\ d[cat][k] >= c[cat][k]

\* q extends p: p's entries are kept, unaltered and in their places
Extends(p, q) == Len(q) >= Len(p) /\ SubSeq(q, 1, Len(p)) = p

\* C12: every counter starts at zero and never decreases (none is ever
\* negative), and the Unresolved list only grows by appending: an entry once
\* added is never removed, altered or reordered.
C12_MonotoneAppendOnly ==
    /\ counts = ZeroCounts
    /\ [](NonNegative(counts))
    /\ [][/\ NotDecreased(counts, counts')
          /\ Extends(counts.unparsable_lines, counts'.unparsable_lines)]_vars

\* a run that has counted, and has appended to a list that held an entry
C12_Witness ==
    /\ pc = "returned"
    /\ Len(UnresolvedBefore) >= 1
    /\ Len(Unresolved) > Len(UnresolvedBefore)
    /\ counts.monitors > 0
    /\ counts.desktops # <<>>

\* summing two keyed tallies key by key
MergeTally(a, b) ==
    [k \in DOMAIN a \cup DOMAIN b |-> Get(a, k, 0) + Get(b, k, 0)]

\* merging two partial results: counters summed, Unresolved lists concatenated
Merge(a, b) ==
    [monitors |-> a.monitors + b.monitors,
     docks |-> a.docks + b.docks,
     desktops |-> MergeTally(a.desktops, b.desktops),
     laptops |-> MergeTally(a.laptops, b.laptops),
     phones |-> MergeTally(a.phones, b.phones),
     bags |-> MergeTally(a.bags, b.bags),
     chargers |-> MergeTally(a.chargers, b.chargers),
     headsets |-> MergeTally(a.headsets, b.headsets),
     unparsable_lines |-> a.unparsable_lines \o b.unparsable_lines]

\* the runs of three separate aggregators over email_data cut after report j
\* and after report k (a part may be empty)
PartRuns(j, k) ==
    <<parse_emails(SubSeq(email_data, 1, j)),
      parse_emails(SubSeq(email_data, j + 1, k)),
      parse_emails(SubSeq(email_data, k + 1, Len(email_data)))>>

\* the cuts: none, and every j <= k that leaves a report for the last part
Cuts ==
    {<<0, 0>>} \cup
    {<<j, k>> \in (1..Len(email_data)) \X (1..Len(email_data)) :
        j <= k /\ k < Len(email_data)}

Orders == {p \in [1..3 -> 1..3] : \A i \in 1..3 : \E n \in 1..3 : p[n] = i}

\* the partial results r merged in the order p, grouped to the left and to
\* the right
MergedLeft(r, p) == Merge(Merge(r[p[1]].counts, r[p[2]].counts), r[p[3]].counts)
MergedRight(r, p) == Merge(r[p[1]].counts, Merge(r[p[2]].counts, r[p[3]].counts))

InOrder == [i \in 1..3 |-> i]

\* p and q hold the same entries, each as many times
SameEntries(p, q) ==
    /\ Len(p) = Len(q)
    /\ \A e \in Range(p) :
            Cardinality({i \in DOMAIN p : p[i] = e})
                = Cardinality({i \in DOMAIN q : q[i] = e})

FanIn(r) ==
    IF pc = "raised" THEN \E i \in 1..3 : r[i].raised
    ELSE /\ \A i \in 1..3 : ~r[i].raised
         /\ MergedLeft(r, InOrder) = counts
         /\ MergedRight(r, InOrder) = counts
         /\ \A p \in Orders :
                /\ Counters(MergedLeft(r, p)) = Counters(counts)
                /\ MergedRight(r, p) = MergedLeft(r, p)
                /\ SameEntries(MergedLeft(r, p).unparsable_lines, Unresolved)

Pieces(lc) ==
    {Sub(lc, i, Len(lc)) : i \in 1..Len(lc)} \cup {Sub(lc, 1, j) : j \in 1..Len(lc)}

\* C14: normalization is idempotent: normalize_item_name applied to its own
\* result gives that result, for every piece of a line that is a report of
\* its own.
C14_NormalizeIdempotent ==
    Len(email_data) = 1 =>
        \A t \in Pieces(line_clean) : \A n \in {normalize_item_name(t)} :
            normalize_item_name(n) = n

\* a text that normalization changes at its edge and inside: a character is
\* removed in front of whitespace, and letters are lowercased
C14_Witness ==
    /\ Len(email_data) = 1
    /\ \E t \in Pieces(line_clean) :
            /\ ~IsSpace(Char(t, 1))
            /\ IsSpace(Char(KeepNormal(lower(t)), 1))
            /\ normalize_item_name(t) # ""
            /\ lower(t) # t

\* C15: registry disjointness: no model identifier is in more than one of
\* the desktop, laptop and phone model sets, so no identifier is counted in
\* more than one of Desktops, Laptops and Phones.
C15_RegistryDisjoint ==
    /\ Range(DESKTOP_MODELS) \cap Range(LAPTOP_MODELS) = {}
    /\ Range(DESKTOP_MODELS) \cap Range(PHONE_MODELS) = {}
    /\ Range(LAPTOP_MODELS) \cap Range(PHONE_MODELS) = {}
    /\ DOMAIN counts.desktops \cap DOMAIN counts.laptops = {}
    /\ DOMAIN counts.desktops \cap DOMAIN counts.phones = {}
    /\ DOMAIN counts.laptops \cap DOMAIN counts.phones = {}

\* a line whose 4-digit token was looked up, with models of all three
\* registry sets counted
C15_Witness ==
    /\ LineDone
    /\ form \in {"x_leading", "generic"}
    /\ DigitRun(normalize_item_name(line_clean), 1) >= 1
    /\ Counters(counts) # Counters(before)
    /\ counts.desktops # <<>>
    /\ counts.laptops # <<>>
    /\ counts.phones # <<>>

\* the rule of the cascade that classifies the normalized description s: the
\* first one, in the fixed order, whose test s passes
Rule(s) ==
    IF DigitRun(s, 1) >= 4 THEN 1
    ELSE IF Contains(s, "phone") THEN 2
    ELSE IF \E i \in 1..Len(s) : PhoneModelAt(s, i) THEN 3
    ELSE IF Contains(s, "monitor") \/ Contains(s, "screen") THEN 4
    ELSE IF Contains(s, "bag") THEN 5
    ELSE IF Contains(s, "charger") THEN 6
    ELSE IF Contains(s, "dock") THEN 7
    ELSE IF Contains(s, "headset") THEN 8
    ELSE 9

\* what rule r does to the counts c for count n and description s, giving d
RuleOutcome(r, c, d, n, s) ==
    CASE r = 1 ->
            IF Sub(s, 1, 4) \in Range(DESKTOP_MODELS)
            THEN d = Plus(c, <<"desktops", Sub(s, 1, 4)>>, n)
            ELSE IF Sub(s, 1, 4) \in Range(LAPTOP_MODELS)
            THEN d = Plus(c, <<"laptops", Sub(s, 1, 4)>>, n)
            ELSE AppendedBy(c, d)
      [] r \in {2, 3} ->
            \/ \E m \in Range(PHONE_MODELS) : d = Plus(c, <<"phones", m>>, n)
            \/ AppendedBy(c, d)
      [] r = 4 -> d = Plus(c, <<"monitors", "">>, n)
      [] r = 5 ->
            IF Contains(s, "small") THEN d = Plus(c, <<"bags", "small">>, n)
            ELSE IF Contains(s, "large") THEN d = Plus(c, <<"bags", "large">>, n)
            ELSE AppendedBy(c, d)
      [] r = 6 -> d = Plus(c, <<"chargers", s>>, n)
      [] r = 7 -> d = Plus(c, <<"docks", "">>, n)
      [] r = 8 -> d = Plus(c, <<"headsets", s>>, n)
      [] r = 9 -> AppendedBy(c, d)

OwnTexts(lc, item) ==
    {item.raw_item_str, strip(item.raw_item_str),
     normalize_item_name(item.raw_item_str)}
    \cup {Sub(lc, i, GenericAt(lc, i).end - 1) :
            i \in {j \in 1..Len(lc) :
                    /\ GenericAt(lc, j).ok
                    /\ GenericAt(lc, j).num_str = item.num_str
                    /\ GenericAt(lc, j).raw_item_str = item.raw_item_str}}

\* C17 as written: when a generic occurrence matches no category, no counter
\* changes and the Unresolved entry appended records the occurrence's own
\* text, not the whole line.
C17_OccurrenceText ==
    [][pc = "items" =>
          LET item == Head(found_items)
          IN  Rule(normalize_item_name(item.raw_item_str)) = 9 =>
                \E t \in OwnTexts(line_clean, item) : counts' = WithEntry(counts, t)
      ]_vars

\* C17, amended: when a generic occurrence matches no category, no counter
\* changes and one Unresolved entry is appended that records the whole line
\* with the report's sender and received_time; a line with several
\* unclassifiable occurrences yields one entry per occurrence, each holding
\* the same whole line.
C17_WholeLineText ==
    [][pc = "items" =>
          LET item == Head(found_items)
          IN  Rule(normalize_item_name(item.raw_item_str)) = 9 =>
                counts' = WithEntry(counts, line_clean)
      ]_vars

\* a line of two unclassifiable occurrences has left two entries, both the
\* whole line
C17_Witness ==
    /\ form = "generic"
    /\ pc # "items"
    /\ Len(pattern_generic(line_clean)) = 2
    /\ \A k \in 1..2 :
            Rule(normalize_item_name(pattern_generic(line_clean)[k].raw_item_str)) = 9
    /\ counts = WithEntry(WithEntry(before, line_clean), line_clean)

\* the comma/semicolon-delimited clauses of a line
Clauses(lc) ==
    LET starts == {1} \cup {i + 1 : i \in {j \in 1..Len(lc) : Char(lc, j) \in {",", ";"}}}
    IN  {Sub(lc, i, i + ClauseRun(lc, i) - 1) : i \in starts}

\* a clause with text in it and no count x description occurrence
Unaccepted(clause) == strip(clause) # "" /\ pattern_generic(clause) = <<>>

\* C18: in a line handled by the generic form every clause that no matcher
\* accepts is recorded: an Unresolved entry appended for the line holds its
\* text.
C18_NoSilentDrop ==
    (LineDone /\ form = "generic") =>
        \A clause \in Clauses(line_clean) :
            Unaccepted(clause) =>
                \E k \in (Len(UnresolvedBefore) + 1)..Len(Unresolved) :
                    Contains(Unresolved[k].line, strip(clause))

\* the report the run is in
Report == email_data[n_emails]

\* the entries a step has appended
Appended(c, d) ==
    {d.unparsable_lines[k] : k \in (Len(c.unparsable_lines) + 1)..Len(d.unparsable_lines)}

WidgetLine == "2 x widget"

\* C19: every Unresolved entry carries the sender and received_time of the
\* report whose line produced it, and identical unresolved text coming from
\* different reports is kept as separate entries: two reports of the line
\* "2 x widget" leave two entries, the first with the first report's sender
\* and received_time and the second with the second's.
C19_Provenance ==
    /\ [][\A e \in Appended(counts, counts') :
            /\ "sender" \in DOMAIN Report => e.sender = Report.sender
            /\ "received_time" \in DOMAIN Report =>
                    e.received_time = Report.received_time]_vars
    /\ []((/\ pc = "returned"
           /\ Len(email_data) = 2
           /\ \A k \in 1..2 : BodyOf(email_data[k]) = PyStr(WidgetLine)) =>
            /\ Len(Unresolved) = 2
            /\ \A k \in 1..2 :
                    Unresolved[k] = [line |-> WidgetLine,
                                     sender |-> email_data[k].sender,
                                     received_time |-> email_data[k].received_time])

\* the same unresolved text from two reports of different senders, both kept
C19_Witness ==
    /\ pc = "returned"
    /\ Len(Unresolved) = 2
    /\ Unresolved[1].line = Unresolved[2].line
    /\ Unresolved[1].sender # Unresolved[2].sender
    /\ Unresolved[1].sender = email_data[1].sender
    /\ Unresolved[2].sender = email_data[2].sender

\* C20: in every reachable state the keys of the keyed counters are inside
\* their closed sets: Desktops in the desktop registry, Laptops in the laptop
\* registry, Phones in the phone registry, Bags in small and large.
C20_ClosedKeys ==
    /\ DOMAIN counts.desktops \subseteq Range(DESKTOP_MODELS)
    /\ DOMAIN counts.laptops \subseteq Range(LAPTOP_MODELS)
    /\ DOMAIN counts.phones \subseteq Range(PHONE_MODELS)
    /\ DOMAIN counts.bags \subseteq {"small", "large"}

\* all four keyed counters hold a key, after a line with a numeral outside
\* the registry, a phone without a model or a bag without a size
C20_Witness ==
    /\ LineDone
    /\ counts.desktops # <<>>
    /\ counts.laptops # <<>>
    /\ counts.phones # <<>>
    /\ counts.bags # <<>>
    /\ \/ /\ form = "generic"
          /\ \E k \in DOMAIN pattern_generic(line_clean) :
                LET s == normalize_item_name(pattern_generic(line_clean)[k].raw_item_str)
                IN  \/ Rule(s) = 1 /\ Sub(s, 1, 4) \notin
                            Range(DESKTOP_MODELS) \cup Range(LAPTOP_MODELS)
                    \/ Rule(s) = 5 /\ ~Contains(s, "small") /\ ~Contains(s, "large")
                    \/ PhoneMention(s)
       \/ /\ form = "fallback"
          /\ ModelsIn(line_clean, LAPTOP_MODELS) # {}

(***************************************************************************)
(* C21                                                                     *)
(***************************************************************************)
\* a step that increments Desktops or Laptops for the normalized description
\* s does so for a numeral of exactly four digits that is a registry model
ExactNumeral(s) ==
    (\E cat \in {"desktops", "laptops"} : \E m \in DOMAIN counts'[cat] :
        counts'[cat][m] > Get(counts[cat], m, 0)) =>
        /\ DigitRun(s, 1) = 4
        /\ Sub(s, 1, 4) \in Range(DESKTOP_MODELS) \cup Range(LAPTOP_MODELS)

\* C21: in forms 1 and 2 a description is routed to Desktops/Laptops only
\* when it starts with a numeral of exactly four digits that is a registry
\* identifier; a description starting with a longer numeral whose first four
\* digits are a registry identifier, as in "2 x 53401", changes neither
\* Desktops nor Laptops.
C21_ExactFourDigits ==
    [][/\ pc = "items" =>
            ExactNumeral(normalize_item_name(Head(found_items).raw_item_str))
       /\ (pc = "lines" /\ form' = "x_leading") =>
            ExactNumeral(normalize_item_name(pattern_x_leading(line_clean').item_str))
      ]_vars

====
